---- MODULE Spec2Model ----
(***************************************************************************)
(* Model of the Simulation-Client transaction core (src/src/transaction.rs)*)
(* : the Transaction record, its canonical content, Ed25519 signing and    *)
(* verification, the chain check verify_is_next, and the constructors.     *)
(*                                                                         *)
(* Byte strings are sequences over 0..255.  A key pair produced by         *)
(* sign::gen_keypair is named by its index k >= 1; its public key is the   *)
(* PUBLICKEYBYTES-long string Pk(k).  The byte string that                 *)
(* ed25519::sign(m, sk_k) returns (a signed message: 64 signature bytes    *)
(* followed by m) is represented by the record [signer |-> k, msg |-> m];  *)
(* any other byte string put into the signature field is represented by    *)
(* [signer |-> 0, msg |-> bytes].  ed25519::verify(sm, pk) opens exactly   *)
(* the signed messages made with the secret key paired with pk.            *)
(***************************************************************************)
EXTENDS Integers, Sequences, FiniteSets, TLC

VARIABLES
    txs,      \* the transactions built so far, each with its provenance
    nkeys,    \* number of key pairs sign::gen_keypair has produced
    scratch,  \* a signed transaction one field of which was overwritten
    last,     \* the call of verify / verify_is_next made, and its outcome
    mem,      \* codec: the transaction in memory handed to to_json
    text,     \* codec: the JSON text (written by to_json, or typed in)
    dec,      \* codec: what from_json returned for text
    app,      \* client: AppData, the list model, input area, statusbar, POSTs
    ev        \* client: the callback that ran last, and what it started from

vars == <<txs, nkeys, scratch, last, mem, text, dec, app, ev>>
chainVars == <<txs, nkeys, scratch, last>>
codecVars == <<mem, text, dec>>
appVars == <<app, ev>>

----------------------------------------------------------------------------
(* Bounds *)

MaxTx == 3          \* transactions built in one run
MaxBytes == 3       \* longest key / signature byte string given to the codec
MaxSigned == 1      \* transactions made with new and sign in one run of SpecSign
MaxAdds == 34       \* transactions added to the client's history in one run

(* Program constants *)

PUBLICKEYBYTES == 32    \* length PublicKey::from_slice accepts
TIMESTAMPBYTES == 8     \* u64::to_le_bytes
MAX_TX_HISTORY == 32    \* app.rs

----------------------------------------------------------------------------
(* Option<PubKey> *)

None == [some |-> FALSE, key |-> <<>>]
Some(key) == [some |-> TRUE, key |-> key]

(* Result<(), String> *)

Ok == [ok |-> TRUE, err |-> ""]
Err(msg) == [ok |-> FALSE, err |-> msg]

(* Asset ids, as UTF-8 bytes: "A", "B" *)
Ids == {<<65>>, <<66>>}

(* Values make_timestamp() may return *)
Times == {1, 258}

(* The public key of key pair k *)
Pk(k) == [i \in 1..PUBLICKEYBYTES |-> k]

(* u64::to_le_bytes *)
RECURSIVE LeByte(_, _)
LeByte(ts, i) == IF i = 1 THEN ts % 256 ELSE LeByte(ts \div 256, i - 1)

to_le_bytes(ts) == [i \in 1..TIMESTAMPBYTES |-> LeByte(ts, i)]

(* ed25519::sign(m, sk) : the signed message *)
ed25519_sign(m, sk) == [signer |-> sk, msg |-> m]

(* A signature field holding bytes that no secret key produced *)
RawSig(bytes) == [signer |-> 0, msg |-> bytes]

(* PublicKey::from_slice : Some only for PUBLICKEYBYTES bytes *)
from_slice_ok(pk) == Len(pk) = PUBLICKEYBYTES

(* ed25519::verify(sm, pk) : Ok(m) iff sm was signed by the secret key of pk *)
ed25519_verify_ok(sm, pk) == sm.signer # 0 /\ Pk(sm.signer) = pk

----------------------------------------------------------------------------
(* Transaction *)

Tx(id, timestamp, pub_key_input, pub_key_output, signature) ==
    [id |-> id, timestamp |-> timestamp, pub_key_input |-> pub_key_input,
     pub_key_output |-> pub_key_output, signature |-> signature]

(* Transaction::new : signature is Vec::new() *)
new(id, ts, pub_key_input, pub_key_output) ==
    Tx(id, ts, pub_key_input, pub_key_output, RawSig(<<>>))

(* Transaction::from_details *)
from_details(id, timestamp, pub_key_input, pub_key_output, signature) ==
    Tx(id, timestamp, pub_key_input, pub_key_output, signature)

(* Faulty variant: the id is left out of the signed content *)
content_to_u8_noid(t) ==
    to_le_bytes(t.timestamp)
        \o (IF t.pub_key_input.some THEN t.pub_key_input.key ELSE <<>>)
        \o t.pub_key_output

(* Transaction::content_to_u8 *)
content_to_u8(t) ==
    t.id \o to_le_bytes(t.timestamp)
         \o (IF t.pub_key_input.some THEN t.pub_key_input.key ELSE <<>>)
         \o t.pub_key_output

(* Transaction::sign *)
sign(t, sk) == [t EXCEPT !.signature = ed25519_sign(content_to_u8(t), sk)]

(* the closure do_verify inside Transaction::verify *)
do_verify(t, pk, sig) ==
    IF ~from_slice_ok(pk)
    THEN Err("could not create public key from input")
    ELSE IF ed25519_verify_ok(sig, pk)
         THEN IF content_to_u8(t) = sig.msg
              THEN Ok
              ELSE Err("content does not match the signature")
         ELSE Err("signature is not valid")

(* Faulty variant: the signature is always checked against the output key *)
verify_output_only(t) == do_verify(t, t.pub_key_output, t.signature)

(* Transaction::verify *)
verify(t) ==
    IF t.pub_key_input.some
    THEN do_verify(t, t.pub_key_input.key, t.signature)
    ELSE do_verify(t, t.pub_key_output, t.signature)

(* Faulty variant: a transaction without input key counts as next *)
verify_is_next_none_true(t, prev_t) ==
    IF verify(t).ok
    THEN IF t.pub_key_input.some
         THEN prev_t.pub_key_output = t.pub_key_input.key
         ELSE TRUE
    ELSE FALSE

(* Faulty variant: the input key is not compared with the previous output key *)
verify_is_next_nocompare(t, prev_t) ==
    IF verify(t).ok
    THEN IF t.pub_key_input.some THEN TRUE ELSE FALSE
    ELSE FALSE

(* Transaction::verify_is_next *)
verify_is_next(t, prev_t) ==
    IF verify(t).ok
    THEN IF t.pub_key_input.some
         THEN prev_t.pub_key_output = t.pub_key_input.key
         ELSE FALSE
    ELSE FALSE

----------------------------------------------------------------------------
(* The JSON codec.  Here the signature field is the plain byte string it  *)
(* is for to_json and from_json.                                          *)
(*                                                                        *)
(* A JSON text is represented by what serde_json::from_str makes of it:   *)
(* no value at all (json = FALSE), or a value that is an object or not;   *)
(* for an object, each of the five members is absent ("missing") or a     *)
(* value.  A number is one of serde_json's three kinds: "posint" (fits    *)
(* u64), "negint" (negative integer, n its magnitude) or "float" (has a *)
(* fraction or exceeds u64).  serde_json's printer and parser are taken   *)
(* to be inverse to each other on the values to_json builds.              *)

JMissing == [ty |-> "missing", n |-> 0, s |-> <<>>]
JNull == [ty |-> "null", n |-> 0, s |-> <<>>]
JPosInt(n) == [ty |-> "posint", n |-> n, s |-> <<>>]
JNegInt(n) == [ty |-> "negint", n |-> n, s |-> <<>>]
JFloat(n) == [ty |-> "float", n |-> n, s |-> <<>>]
JString(s) == [ty |-> "string", n |-> 0, s |-> s]

NotJson ==
    [json |-> FALSE, obj |-> FALSE, id |-> JMissing, timestamp |-> JMissing,
     publicKeyInput |-> JMissing, publicKeyOutput |-> JMissing,
     signature |-> JMissing]

(* A JSON value that is no object, e.g. [] or 5 *)
JsonNoObject == [NotJson EXCEPT !.json = TRUE]

JsonObject(id, timestamp, pki, pko, sig) ==
    [json |-> TRUE, obj |-> TRUE, id |-> id, timestamp |-> timestamp,
     publicKeyInput |-> pki, publicKeyOutput |-> pko, signature |-> sig]

(* Value indexing v["key"]: Null for a missing member and for non-objects *)
Index(member) == IF member.ty = "missing" THEN JNull ELSE member

(* Value::as_str, Value::as_u64 *)
as_str_some(v) == v.ty = "string"
as_u64_some(v) == v.ty = "posint"

(* base64, standard alphabet with padding.  Characters are ASCII codes. *)
PAD == 61

B64Char(v) ==
    IF v < 26 THEN 65 + v
    ELSE IF v < 52 THEN 97 + (v - 26)
    ELSE IF v < 62 THEN 48 + (v - 52)
    ELSE IF v = 62 THEN 43 ELSE 47

B64Val(c) ==
    IF c >= 65 /\ c <= 90 THEN c - 65
    ELSE IF c >= 97 /\ c <= 122 THEN c - 97 + 26
    ELSE IF c >= 48 /\ c <= 57 THEN c - 48 + 52
    ELSE IF c = 43 THEN 62
    ELSE IF c = 47 THEN 63
    ELSE -1

(* base64::encode *)
RECURSIVE encode(_)
encode(b) ==
    IF Len(b) = 0 THEN <<>>
    ELSE IF Len(b) = 1
    THEN <<B64Char(b[1] \div 4), B64Char((b[1] % 4) * 16), PAD, PAD>>
    ELSE IF Len(b) = 2
    THEN <<B64Char(b[1] \div 4), B64Char((b[1] % 4) * 16 + b[2] \div 16),
           B64Char((b[2] % 16) * 4), PAD>>
    ELSE <<B64Char(b[1] \div 4), B64Char((b[1] % 4) * 16 + b[2] \div 16),
           B64Char((b[2] % 16) * 4 + b[3] \div 64), B64Char(b[3] % 64)>>
         \o encode(SubSeq(b, 4, Len(b)))

(* base64::decode_config(s, STANDARD): [ok, bytes].  Quads of symbols are *)
(* turned into three bytes; the last quad may end in one or two PAD; a    *)
(* symbol outside the alphabet, a length that is no multiple of four and  *)
(* discarded bits that are not zero are errors.                           *)
DecodeErr == [ok |-> FALSE, bytes |-> <<>>]

RECURSIVE decode_config(_)
decode_config(s) ==
    IF Len(s) = 0 THEN [ok |-> TRUE, bytes |-> <<>>]
    ELSE IF Len(s) < 4 THEN DecodeErr
    ELSE
      LET v1 == B64Val(s[1])
          v2 == B64Val(s[2])
          v3 == B64Val(s[3])
          v4 == B64Val(s[4])
          final == Len(s) = 4
      IN IF v1 < 0 \/ v2 < 0 THEN DecodeErr
         ELSE IF final /\ s[3] = PAD /\ s[4] = PAD
         THEN IF v2 % 16 = 0
              THEN [ok |-> TRUE, bytes |-> <<v1 * 4 + v2 \div 16>>]
              ELSE DecodeErr
         ELSE IF v3 < 0 THEN DecodeErr
         ELSE IF final /\ s[4] = PAD
         THEN IF v3 % 4 = 0
              THEN [ok |-> TRUE,
                    bytes |-> <<v1 * 4 + v2 \div 16,
                                (v2 % 16) * 16 + v3 \div 4>>]
              ELSE DecodeErr
         ELSE IF v4 < 0 THEN DecodeErr
         ELSE LET rest == decode_config(SubSeq(s, 5, Len(s)))
              IN IF rest.ok
                 THEN [ok |-> TRUE,
                       bytes |-> <<v1 * 4 + v2 \div 16,
                                   (v2 % 16) * 16 + v3 \div 4,
                                   (v3 % 4) * 64 + v4>> \o rest.bytes]
                 ELSE DecodeErr

(* Faulty variant: an absent input key is written as the encoding of no bytes *)
to_json_flat(t) ==
    JsonObject(JString(t.id), JPosInt(t.timestamp),
               JString(encode(t.pub_key_input.key)),
               JString(encode(t.pub_key_output)),
               JString(encode(t.signature)))

(* Transaction::to_json *)
to_json(t) ==
    JsonObject(JString(t.id), JPosInt(t.timestamp),
               IF t.pub_key_input.some
               THEN JString(encode(t.pub_key_input.key))
               ELSE JNull,
               JString(encode(t.pub_key_output)),
               JString(encode(t.signature)))

(* Result<Transaction, String> *)
NoTx == Tx(<<>>, 0, None, <<>>, <<>>)
TxOk(t) == [ok |-> TRUE, err |-> "", t |-> t]
TxErr(msg) == [ok |-> FALSE, err |-> msg, t |-> NoTx]

(* Faulty variant: a timestamp that is no u64 is read as 0 *)
from_json_value_ts0(v) ==
    LET id == Index(v.id)
        ts == Index(v.timestamp)
        pki == Index(v.publicKeyInput)
        pko == Index(v.publicKeyOutput)
        sig == Index(v.signature)
    IN IF ~as_str_some(id) THEN TxErr("Could not parse id as String")
       ELSE IF as_str_some(pki) /\ ~decode_config(pki.s).ok
       THEN TxErr("Could not decode publicKeyInput from base64 with error")
       ELSE IF ~as_str_some(pko)
       THEN TxErr("Could not parse publicKeyOutput as String")
       ELSE IF ~decode_config(pko.s).ok
       THEN TxErr("Could not decode publicKeyOutput from base64 with error")
       ELSE IF ~as_str_some(sig)
       THEN TxErr("Could not parse signature as String")
       ELSE IF ~decode_config(sig.s).ok
       THEN TxErr("Could not decode signature from base64 with error")
       ELSE TxOk(from_details(
                id.s, IF as_u64_some(ts) THEN ts.n ELSE 0,
                IF as_str_some(pki) THEN Some(decode_config(pki.s).bytes)
                                    ELSE None,
                decode_config(pko.s).bytes, decode_config(sig.s).bytes))

(* Transaction::from_json_value.  The base64 error text appended to the   *)
(* three decode messages is left out.                                     *)
from_json_value(v) ==
    LET id == Index(v.id)
        ts == Index(v.timestamp)
        pki == Index(v.publicKeyInput)
        pko == Index(v.publicKeyOutput)
        sig == Index(v.signature)
    IN IF ~as_str_some(id) THEN TxErr("Could not parse id as String")
       ELSE IF ~as_u64_some(ts) THEN TxErr("Could not parse id as u64")
       ELSE IF as_str_some(pki) /\ ~decode_config(pki.s).ok
       THEN TxErr("Could not decode publicKeyInput from base64 with error")
       ELSE IF ~as_str_some(pko)
       THEN TxErr("Could not parse publicKeyOutput as String")
       ELSE IF ~decode_config(pko.s).ok
       THEN TxErr("Could not decode publicKeyOutput from base64 with error")
       ELSE IF ~as_str_some(sig)
       THEN TxErr("Could not parse signature as String")
       ELSE IF ~decode_config(sig.s).ok
       THEN TxErr("Could not decode signature from base64 with error")
       ELSE TxOk(from_details(
                id.s, ts.n,
                IF as_str_some(pki) THEN Some(decode_config(pki.s).bytes)
                                    ELSE None,
                decode_config(pko.s).bytes, decode_config(sig.s).bytes))

(* Transaction::from_json *)
from_json(string) ==
    IF ~string.json THEN TxErr("Failed to convert from json")
    ELSE IF from_json_value(string).ok
         THEN TxOk(from_json_value(string).t)
         ELSE TxErr("Could not convert json to Transaction")

NoText == [present |-> FALSE, typed |-> FALSE, doc |-> NotJson]
NoDec == [done |-> FALSE, res |-> TxErr("")]

----------------------------------------------------------------------------
(* The transactions built so far.  Each entry keeps the transaction and   *)
(* how it was built: kind, the index prev of the transaction it was built *)
(* from (0: none), the secret key sk returned with it (0: none) and the   *)
(* secret key given to the constructor or to sign (0: none).              *)
(* A run builds transactions and then makes one call of verify or         *)
(* verify_is_next (both are pure), whose outcome is kept in last.         *)

Entry(t, kind, prev, sk, given) ==
    [t |-> t, kind |-> kind, prev |-> prev, sk |-> sk, given |-> given]

NoCall == [op |-> "none", a |-> 0, b |-> 0, ok |-> FALSE, err |-> ""]

NoScratch == [from |-> 0, field |-> "", t |-> new(<<>>, 0, None, <<>>)]

(* App::new: the client before any callback ran *)
AppNew ==
    [txs |-> <<>>, id |-> 0, list_model |-> <<>>, buffer |-> NotJson,
     status |-> "", posts |-> 0, last_body |-> NotJson, crashed |-> FALSE,
     assigned |-> <<>>]

NoEvent ==
    [h |-> "none", pre |-> AppNew, outcome |-> "", idx |-> 0, hit |-> FALSE]

Init ==
    /\ txs = <<>>
    /\ nkeys = 0
    /\ scratch = NoScratch
    /\ last = NoCall
    /\ mem = NoTx /\ text = NoText /\ dec = NoDec
    /\ app = AppNew /\ ev = NoEvent

Building == last.op = "none" /\ scratch.from = 0

(* make_timestamp() at the time of a constructor call: the clock is not  *)
(* set back between two calls.                                           *)
Now == {ts \in Times : \A i \in 1..Len(txs) : txs[i].t.timestamp <= ts}

(* Faulty variant: the generator hands out the latest key pair again *)
gen_keypair_repeat == IF nkeys = 0 THEN 1 ELSE nkeys

(* sign::gen_keypair : a key pair never produced before *)
gen_keypair == nkeys + 1

(* Transaction::debug_make_register *)
debug_make_register(id, ts, k) == sign(new(id, ts, None, Pk(k)), k)

MakeRegister(id, ts) ==
    /\ Building
    /\ Len(txs) < MaxTx
    /\ LET k == gen_keypair
       IN /\ txs' = Append(txs, Entry(debug_make_register(id, ts, k),
                                      "register", 0, k, 0))
          /\ nkeys' = IF k > nkeys THEN k ELSE nkeys
    /\ UNCHANGED <<scratch, last, codecVars, appVars>>

(* Faulty variant: the transfer is signed with the new secret key *)
debug_make_transfer_newkey(t_prev, sk_prev, ts, k) ==
    sign(Tx(t_prev.id, ts, Some(t_prev.pub_key_output), Pk(k), RawSig(<<>>)), k)

(* Transaction::debug_make_transfer *)
debug_make_transfer(t_prev, sk_prev, ts, k) ==
    sign(Tx(t_prev.id, ts, Some(t_prev.pub_key_output), Pk(k), RawSig(<<>>)),
         sk_prev)

MakeTransfer(i, sk_prev, ts) ==
    /\ Building
    /\ Len(txs) < MaxTx
    /\ LET k == gen_keypair
       IN /\ txs' = Append(txs,
                        Entry(debug_make_transfer(txs[i].t, sk_prev, ts, k),
                              "transfer", i, k, sk_prev))
          /\ nkeys' = IF k > nkeys THEN k ELSE nkeys
    /\ UNCHANGED <<scratch, last, codecVars, appVars>>

(* What anyone can read off the transactions built so far *)
SeenIds == {txs[i].t.id : i \in 1..Len(txs)}
SeenTimes == {txs[i].t.timestamp : i \in 1..Len(txs)}
SeenKeys ==
    {txs[i].t.pub_key_output : i \in 1..Len(txs)}
        \cup {txs[i].t.pub_key_input.key : i \in 1..Len(txs)}
        \cup {<<>>}
SeenSigs == {txs[i].t.signature : i \in 1..Len(txs)}

OptKeys(S) == {None} \cup {Some(k) : k \in S}

(* Transaction::from_details on publicly visible values: no secret key is *)
(* used, the signature is one already present in some transaction.        *)
FromDetails(id, ts, pki, pko, sig) ==
    /\ Building
    /\ Len(txs) < MaxTx
    /\ txs' = Append(txs, Entry(from_details(id, ts, pki, pko, sig),
                                "details", 0, 0, 0))
    /\ UNCHANGED <<nkeys, scratch, last, codecVars, appVars>>

(* Transaction::new followed by sign, by the holder of secret key sk *)
NewSign(id, ts, pki, pko, sk) ==
    /\ Building
    /\ Len(txs) < MaxTx
    /\ txs' = Append(txs, Entry(sign(new(id, ts, pki, pko), sk),
                                "signed", 0, 0, sk))
    /\ UNCHANGED <<nkeys, scratch, last, codecVars, appVars>>

(* A signed transaction with one field overwritten afterwards (set_id and *)
(* the field writes of test_sign_verify); the signature is left as it     *)
(* was.  scratch holds the changed transaction, from the index of the     *)
(* original.                                                              *)
Built(i) == txs[i].kind \in {"register", "transfer"}

TamperId(i, id) ==
    /\ Building /\ Built(i)
    /\ scratch' = [from |-> i, field |-> "id", t |-> [txs[i].t EXCEPT !.id = id]]
    /\ UNCHANGED <<txs, nkeys, last, codecVars, appVars>>

TamperTimestamp(i, ts) ==
    /\ Building /\ Built(i)
    /\ scratch' = [from |-> i, field |-> "timestamp",
                   t |-> [txs[i].t EXCEPT !.timestamp = ts]]
    /\ UNCHANGED <<txs, nkeys, last, codecVars, appVars>>

TamperInput(i, pki) ==
    /\ Building /\ Built(i)
    /\ scratch' = [from |-> i, field |-> "pub_key_input",
                   t |-> [txs[i].t EXCEPT !.pub_key_input = pki]]
    /\ UNCHANGED <<txs, nkeys, last, codecVars, appVars>>

TamperOutput(i, pko) ==
    /\ Building /\ Built(i)
    /\ scratch' = [from |-> i, field |-> "pub_key_output",
                   t |-> [txs[i].t EXCEPT !.pub_key_output = pko]]
    /\ UNCHANGED <<txs, nkeys, last, codecVars, appVars>>

(* Calls of verify and verify_is_next *)
Verify(i) ==
    /\ Building
    /\ last' = [op |-> "verify", a |-> i, b |-> 0,
                ok |-> verify(txs[i].t).ok, err |-> verify(txs[i].t).err]
    /\ UNCHANGED <<txs, nkeys, scratch, codecVars, appVars>>

VerifyIsNext(i, j) ==
    /\ Building
    /\ last' = [op |-> "verify_is_next", a |-> i, b |-> j,
                ok |-> verify_is_next(txs[i].t, txs[j].t), err |-> ""]
    /\ UNCHANGED <<txs, nkeys, scratch, codecVars, appVars>>

VerifyTampered ==
    /\ last.op = "none" /\ scratch.from # 0
    /\ last' = [op |-> "verify_tampered", a |-> scratch.from, b |-> 0,
                ok |-> verify(scratch.t).ok, err |-> verify(scratch.t).err]
    /\ UNCHANGED <<txs, nkeys, scratch, codecVars, appVars>>

TamperValuesId(i) == Ids \cup {Append(txs[i].t.id, 49)}

Next ==
    \/ \E id \in Ids, ts \in Now : MakeRegister(id, ts)
    \/ \E i \in 1..Len(txs), sk \in 1..nkeys, ts \in Now :
            MakeTransfer(i, sk, ts)
    \/ \E i \in 1..Len(txs) : \E id \in TamperValuesId(i) : TamperId(i, id)
    \/ \E i \in 1..Len(txs), ts \in Times : TamperTimestamp(i, ts)
    \/ \E i \in 1..Len(txs), pki \in OptKeys(SeenKeys) : TamperInput(i, pki)
    \/ \E i \in 1..Len(txs), pko \in SeenKeys : TamperOutput(i, pko)
    \/ \E i \in 1..Len(txs) : Verify(i)
    \/ \E i \in 1..Len(txs), j \in 1..Len(txs) : VerifyIsNext(i, j)
    \/ VerifyTampered

Spec == Init /\ [][Next]_vars

(* The same, with reconstruction from visible values and with signing by *)
(* the holders of the secret keys.                                       *)
NextOpen ==
    \/ \E id \in Ids, ts \in Now : MakeRegister(id, ts)
    \/ \E i \in 1..Len(txs), sk \in 1..nkeys, ts \in Now :
            MakeTransfer(i, sk, ts)
    \/ \E id \in SeenIds, ts \in SeenTimes, pki \in OptKeys(SeenKeys),
          pko \in SeenKeys, sig \in SeenSigs :
            FromDetails(id, ts, pki, pko, sig)
    \/ \E id \in Ids, ts \in Now, pki \in OptKeys(SeenKeys \ {<<>>}),
          pko \in SeenKeys \ {<<>>}, sk \in 1..nkeys :
            NewSign(id, ts, pki, pko, sk)
    \/ \E i \in 1..Len(txs) : Verify(i)
    \/ \E i \in 1..Len(txs), j \in 1..Len(txs) : VerifyIsNext(i, j)

SpecOpen == Init /\ [][NextOpen]_vars

(* The constructors and signing by the holders of the secret keys, each  *)
(* transaction then handed to verify.                                    *)
NumSigned == Cardinality({i \in 1..Len(txs) : txs[i].kind = "signed"})

NextSign ==
    \/ \E id \in Ids, ts \in Now : MakeRegister(id, ts)
    \/ \E i \in 1..Len(txs), sk \in 1..nkeys, ts \in Now :
            MakeTransfer(i, sk, ts)
    \/ \E id \in Ids, ts \in Now, pki \in OptKeys(SeenKeys \ {<<>>}),
          pko \in SeenKeys \ {<<>>}, sk \in 1..nkeys :
            NumSigned < MaxSigned /\ NewSign(id, ts, pki, pko, sk)
    \/ \E i \in 1..Len(txs) : Verify(i)

SpecSign == Init /\ [][NextSign]_vars

----------------------------------------------------------------------------
(* The codec as a state machine: a transaction in memory is written with  *)
(* to_json and the text read back with from_json, or a text typed into    *)
(* the input area is read with from_json.                                 *)

ByteVals == {0, 255}
ByteStrings == UNION {[1..k -> ByteVals] : k \in 0..MaxBytes}

(* "" and "A" *)
CodecIds == {<<>>, <<65>>}
CodecTimes == {0, 258, 2147483647}

(* Member values of typed texts.  The malformed base64 strings are "!"    *)
(* (one character, outside the alphabet), "A-A=" (url-safe character) and *)
(* "====": every version of the base64 crate rejects them.                *)
B64Good == JString(encode(<<255>>))
B64Bang == JString(<<33>>)
B64Url == JString(<<65, 45, 65, 61>>)
B64Pads == JString(<<61, 61, 61, 61>>)

TypedIds == {JMissing, JNull, JPosInt(5), JString(<<65>>)}
TypedTimes == {JMissing, JString(<<49>>), JNegInt(1), JFloat(1), JPosInt(7)}
TypedInputs == {JMissing, JNull, JPosInt(5), B64Good, B64Bang, B64Url}
TypedOutputs == {JMissing, JNull, B64Good, JString(<<>>), B64Pads}
TypedSignatures == {JMissing, JPosInt(5), B64Good, B64Url}

TypedDocs ==
    {NotJson, JsonNoObject} \cup
    {JsonObject(id, ts, pki, pko, sig) :
        id \in TypedIds, ts \in TypedTimes, pki \in TypedInputs,
        pko \in TypedOutputs, sig \in TypedSignatures}

InitCodec ==
    /\ txs = <<>> /\ nkeys = 0 /\ scratch = NoScratch /\ last = NoCall
    /\ app = AppNew /\ ev = NoEvent
    /\ dec = NoDec
    /\ \/ /\ \E id \in CodecIds, ts \in CodecTimes,
                pki \in OptKeys(ByteStrings), pko \in ByteStrings,
                sig \in ByteStrings :
                    mem = Tx(id, ts, pki, pko, sig)
          /\ text = NoText
       \/ /\ mem = NoTx
          /\ text \in {[present |-> TRUE, typed |-> TRUE, doc |-> d] :
                          d \in TypedDocs}

ToJson ==
    /\ ~text.present
    /\ text' = [present |-> TRUE, typed |-> FALSE, doc |-> to_json(mem)]
    /\ UNCHANGED <<mem, dec, chainVars, appVars>>

FromJson ==
    /\ text.present /\ ~dec.done
    /\ dec' = [done |-> TRUE, res |-> from_json(text.doc)]
    /\ UNCHANGED <<mem, text, chainVars, appVars>>

NextCodec == ToJson \/ FromJson

SpecCodec == InitCodec /\ [][NextCodec]_vars

----------------------------------------------------------------------------
(* The client (src/src/app.rs).  app holds AppData (txs: index -> stored  *)
(* transaction, id: the next index), the rows of the list model (index,   *)
(* id), the text of the input area, the message pushed last on the        *)
(* statusbar, the number of POSTs issued and the body of the last one,    *)
(* and whether a callback panicked.  assigned lists the indices handed    *)
(* out so far (kept for the properties, not by the program).              *)
(* data.id is a u32; the runs stay below MaxAdds additions.               *)

(* HashMap::insert, HashMap::remove *)
MapInsert(f, k, v) == [i \in DOMAIN f \cup {k} |-> IF i = k THEN v ELSE f[i]]
MapRemove(f, k) == [i \in DOMAIN f \ {k} |-> f[i]]

(* app_push_statusbar *)
app_push_statusbar(a, msg) == [a EXCEPT !.status = msg]

(* Faulty variant: the oldest entry goes only when the limit is exceeded *)
app_add_transaction_late(a, tx) ==
    LET evict == Cardinality(DOMAIN a.txs) > MAX_TX_HISTORY
                    /\ Len(a.list_model) > 0
        lm == IF evict THEN Tail(a.list_model) ELSE a.list_model
        tm == IF evict THEN MapRemove(a.txs, a.list_model[1].idx) ELSE a.txs
        idx == a.id
    IN [a EXCEPT !.id = a.id + 1,
                 !.list_model = Append(lm, [idx |-> idx, id |-> tx.id]),
                 !.txs = MapInsert(tm, idx, tx),
                 !.assigned = Append(a.assigned, idx)]

(* app_add_transaction *)
app_add_transaction(a, tx) ==
    LET evict == Cardinality(DOMAIN a.txs) >= MAX_TX_HISTORY
                    /\ Len(a.list_model) > 0
        lm == IF evict THEN Tail(a.list_model) ELSE a.list_model
        tm == IF evict THEN MapRemove(a.txs, a.list_model[1].idx) ELSE a.txs
        idx == a.id
    IN [a EXCEPT !.id = a.id + 1,
                 !.list_model = Append(lm, [idx |-> idx, id |-> tx.id]),
                 !.txs = MapInsert(tm, idx, tx),
                 !.assigned = Append(a.assigned, idx)]

(* What rest::post can do once the request is sent: return Ok((text,     *)
(* status)), return Err(e) when send fails, or panic in o.text().unwrap() *)
(* when the response body cannot be read.                                 *)
PostOutcomes == {"ok", "err", "panic"}

(* app_send_transaction, with the outcome of rest::post *)
app_send_transaction(a, outcome) ==
    LET r == from_json(a.buffer)
    IN IF ~r.ok
       THEN app_push_statusbar(a, "Invalid input")
       ELSE LET added == app_add_transaction(a, r.t)
                sent == [added EXCEPT !.posts = added.posts + 1,
                                      !.last_body = a.buffer]
            IN IF outcome = "ok"
               THEN app_push_statusbar(sent, "Successfully sent transaction")
               ELSE IF outcome = "err"
               THEN app_push_statusbar(sent, "Failed to send transaction")
               ELSE [sent EXCEPT !.crashed = TRUE]

(* The register transaction app_set_new_transaction writes into the input *)
(* area (one name of names.txt, one key pair), as to_json prints it.      *)
AppTx == Tx(<<65>>, 258, None, <<255, 0>>, <<255>>)

(* app_set_new_transaction *)
app_set_new_transaction(a) == [a EXCEPT !.buffer = to_json(AppTx)]

(* Texts typed into the input area: no JSON, a transaction without        *)
(* signature, a complete transaction.                                     *)
AppTexts ==
    {NotJson, [to_json(AppTx) EXCEPT !.signature = JMissing], to_json(AppTx)}

Running == ~app.crashed

Event(h, outcome, idx, hit) ==
    [h |-> h, pre |-> app, outcome |-> outcome, idx |-> idx, hit |-> hit]

(* The user edits the input area *)
TypeText(d) ==
    /\ Running
    /\ app' = [app EXCEPT !.buffer = d]
    /\ ev' = Event("type", "", 0, FALSE)
    /\ UNCHANGED <<chainVars, codecVars>>

(* Menu "New Registry" *)
NewRegistry ==
    /\ Running
    /\ app' = app_set_new_transaction(app)
    /\ ev' = Event("new", "", 0, FALSE)
    /\ UNCHANGED <<chainVars, codecVars>>

(* Button "Send" *)
Send(outcome) ==
    /\ Running
    /\ app.id < MaxAdds
    /\ app' = app_send_transaction(app, outcome)
    /\ ev' = Event("send", outcome, 0, FALSE)
    /\ UNCHANGED <<chainVars, codecVars>>

(* Button "Send N" with a number: N times a new transaction, then send;   *)
(* a panic ends the loop.                                                 *)
RECURSIVE send_n(_, _)
send_n(a, outs) ==
    IF Len(outs) = 0 \/ a.crashed THEN a
    ELSE send_n(app_send_transaction(app_set_new_transaction(a), Head(outs)),
                Tail(outs))

SendN(outs) ==
    /\ Running
    /\ app.id + Len(outs) <= MaxAdds
    /\ app' = send_n(app, outs)
    /\ ev' = Event("sendn", "", 0, FALSE)
    /\ UNCHANGED <<chainVars, codecVars>>

(* Button "Send N" with a text that is no u32 *)
SendNInvalid ==
    /\ Running
    /\ app' = app_push_statusbar(app, "Invalid number for 'Send N'")
    /\ ev' = Event("sendn_invalid", "", 0, FALSE)
    /\ UNCHANGED <<chainVars, codecVars>>

(* A row of the list is selected: data.txs.get(&idx).unwrap(), then the   *)
(* transaction is written into the input area.                            *)
Select(row) ==
    /\ Running
    /\ LET idx == app.list_model[row].idx
           hit == idx \in DOMAIN app.txs
       IN /\ app' = IF hit THEN [app EXCEPT !.buffer = to_json(app.txs[idx])]
                           ELSE [app EXCEPT !.crashed = TRUE]
          /\ ev' = Event("select", "", idx, hit)
    /\ UNCHANGED <<chainVars, codecVars>>

NextApp ==
    \/ \E d \in AppTexts : TypeText(d)
    \/ NewRegistry
    \/ \E outcome \in PostOutcomes : Send(outcome)
    \/ \E outs \in [1..2 -> PostOutcomes] : SendN(outs)
    \/ SendNInvalid
    \/ \E row \in 1..Len(app.list_model) : Select(row)

SpecApp == Init /\ [][NextApp]_vars

----------------------------------------------------------------------------
(* Provenance *)

(* txs[i] was returned by debug_make_transfer called with the secret key *)
(* paired with the output key of the transaction it was built from.      *)
RightKey(i) ==
    /\ txs[i].kind = "transfer"
    /\ txs[i].given # 0
    /\ Pk(txs[i].given) = txs[txs[i].prev].t.pub_key_output

(* txs[i] is a register transaction, or a transfer built from a member of *)
(* a chain with the secret key returned when that member was built.       *)
RECURSIVE InChain(_)
InChain(i) ==
    \/ txs[i].kind = "register"
    \/ /\ txs[i].kind = "transfer"
       /\ txs[i].given = txs[txs[i].prev].sk
       /\ txs[i].given # 0
       /\ InChain(txs[i].prev)

ChainLen(i) == IF txs[i].kind = "transfer" /\ txs[txs[i].prev].kind = "transfer"
               THEN 3 ELSE IF txs[i].kind = "transfer" THEN 2 ELSE 1

----------------------------------------------------------------------------
(* C1: verify succeeds on every transaction debug_make_register returned  *)
(* and on every transaction debug_make_transfer returned when it was      *)
(* given the secret key paired with the previous output key.              *)
C1_SignThenVerify ==
    (last.op = "verify"
        /\ (txs[last.a].kind = "register" \/ RightKey(last.a)))
    => last.ok

C1_Witness ==
    /\ last.op = "verify" /\ last.ok
    /\ RightKey(last.a) /\ ChainLen(last.a) = 3

(* C2: verify_is_next(t, prev) is true exactly when verify(t) succeeds,   *)
(* t has an input key and that key equals prev's output key; it returns   *)
(* a boolean and no error.                                                *)
C2_VerifyIsNextIff ==
    last.op = "verify_is_next" =>
        LET t == txs[last.a].t
            prev == txs[last.b].t
        IN /\ last.ok \in BOOLEAN
           /\ last.err = ""
           /\ last.ok <=> (/\ verify(t).ok
                           /\ t.pub_key_input # None
                           /\ t.pub_key_input = Some(prev.pub_key_output))

C2_Witness ==
    /\ last.op = "verify_is_next" /\ last.ok
    /\ \E j \in 1..Len(txs) :
          /\ verify(txs[last.a].t).ok
          /\ ~verify_is_next(txs[last.a].t, txs[j].t)

(* C3: along a chain built by the constructors every transfer is next     *)
(* after the transaction it was built from, and a register transaction is *)
(* next after no transaction, although it verifies.                       *)
C3_ChainContinuity ==
    last.op = "verify_is_next" =>
        /\ (InChain(last.a) /\ txs[last.a].kind = "transfer"
               /\ last.b = txs[last.a].prev) => last.ok
        /\ txs[last.a].kind = "register" => ~last.ok

C3_Witness ==
    /\ last.op = "verify_is_next" /\ ~last.ok
    /\ txs[last.a].kind = "register" /\ txs[last.b].kind = "register"
    /\ last.a # last.b
    /\ verify(txs[last.a].t).ok
    /\ \E i \in 1..Len(txs) :
          InChain(i) /\ txs[i].kind = "transfer"
            /\ verify_is_next(txs[i].t, txs[txs[i].prev].t)

(* C4: a transaction built by a constructor, with one signed field        *)
(* changed to a different value and the signature kept, fails verify.     *)
C4_TamperDetected ==
    (last.op = "verify_tampered" /\ Built(scratch.from)
        /\ scratch.t # txs[scratch.from].t)
    => ~last.ok

C4_Witness ==
    /\ last.op = "verify_tampered" /\ ~last.ok
    /\ verify(txs[scratch.from].t).ok
    /\ scratch.field = "id"
    /\ scratch.t.id = Append(txs[scratch.from].t.id, 49)
    /\ last.err = "content does not match the signature"

----------------------------------------------------------------------------
(* Standard base64 with padding (RFC 4648), stated on the text alone *)
ValidB64(s) ==
    /\ Len(s) % 4 = 0
    /\ \A i \in 1..Len(s) :
          \/ B64Val(s[i]) >= 0
          \/ s[i] = PAD /\ i = Len(s)
          \/ s[i] = PAD /\ i = Len(s) - 1 /\ s[Len(s)] = PAD
    /\ Len(s) > 0 =>
          /\ (s[Len(s)] = PAD /\ s[Len(s) - 1] # PAD)
                => B64Val(s[Len(s) - 1]) % 4 = 0
          /\ (s[Len(s)] = PAD /\ s[Len(s) - 1] = PAD)
                => B64Val(s[Len(s) - 2]) % 16 = 0

BadB64(v) == v.ty = "string" /\ ~ValidB64(v.s)

(* The members of a JSON text that C6 lists as making decoding fail *)
BadFields(d) ==
    {f \in {"id"} : d.id.ty # "string"}
    \cup {f \in {"timestamp"} : d.timestamp.ty # "posint"}
    \cup {f \in {"publicKeyInput"} : BadB64(d.publicKeyInput)}
    \cup {f \in {"publicKeyOutput"} :
             d.publicKeyOutput.ty # "string" \/ BadB64(d.publicKeyOutput)}
    \cup {f \in {"signature"} :
             d.signature.ty # "string" \/ BadB64(d.signature)}

(* C5: from_json(to_json(T)) succeeds and equals T in all five fields. *)
C5_RoundTrip ==
    (dec.done /\ ~text.typed) => (dec.res.ok /\ dec.res.t = mem)

C5_Witness ==
    /\ dec.done /\ ~text.typed /\ dec.res.ok
    /\ mem.pub_key_input = Some(<<>>)
    /\ dec.res.t.pub_key_input = Some(<<>>)
    /\ Len(mem.pub_key_output) = 2 /\ Len(mem.signature) = 1
    /\ mem.timestamp = 2147483647

FieldNamed(msg) ==
    CASE msg = "Could not parse id as String" -> "id"
      [] msg = "Could not parse id as u64" -> "id"
      [] msg = "Could not decode publicKeyInput from base64 with error"
            -> "publicKeyInput"
      [] msg = "Could not parse publicKeyOutput as String"
            -> "publicKeyOutput"
      [] msg = "Could not decode publicKeyOutput from base64 with error"
            -> "publicKeyOutput"
      [] msg = "Could not parse signature as String" -> "signature"
      [] msg = "Could not decode signature from base64 with error"
            -> "signature"
      [] OTHER -> "none"

(* C7: the error from_json returns for a text with one failing member     *)
(* names that member (so that failures on different members differ).      *)
C7_ErrorNamesField ==
    (dec.done /\ ~dec.res.ok /\ text.doc.json
        /\ Cardinality(BadFields(text.doc)) = 1)
    => FieldNamed(dec.res.err) \in BadFields(text.doc)

(* C8: in the chains built by the constructors verify succeeds on every   *)
(* member, and verify_is_next(Tj, Ti) is true exactly when Tj was built   *)
(* from Ti.                                                               *)
C8_OnlyDirectPredecessor ==
    /\ (last.op = "verify" /\ InChain(last.a)) => last.ok
    /\ (last.op = "verify_is_next" /\ InChain(last.a) /\ InChain(last.b))
          => (last.ok <=> txs[last.a].prev = last.b)

C8_Witness ==
    /\ last.op = "verify_is_next" /\ ~last.ok
    /\ InChain(last.a) /\ ChainLen(last.a) = 3
    /\ last.b = txs[txs[last.a].prev].prev

(* C9: a transaction put together with from_details out of visible values *)
(* only is never next after a transaction whose output key K no holder of *)
(* a secret key has used as the input key of a transaction.               *)
C9_Unforgeable ==
    (last.op = "verify_is_next"
        /\ txs[last.a].kind = "details"
        /\ \A j \in 1..Len(txs) :
              txs[j].kind \in {"transfer", "signed"}
                => txs[j].t.pub_key_input
                     # Some(txs[last.b].t.pub_key_output))
    => ~last.ok

(* C10: whenever verify_is_next(t, prev) is true, t and prev have the     *)
(* same id.                                                               *)
C10_SameAsset ==
    (last.op = "verify_is_next" /\ last.ok)
    => txs[last.a].t.id = txs[last.b].t.id

(* C11: verify accepts a transaction only if its signature was made with  *)
(* the secret key paired with the authorizing key: the input key when     *)
(* there is one, the output key otherwise.  A transaction with an input   *)
(* key that is signed with the secret key of its own, different, output   *)
(* key is rejected.                                                       *)
AuthorizingKey(t) ==
    IF t.pub_key_input.some THEN t.pub_key_input.key ELSE t.pub_key_output

SignedWith(t, pk) == t.signature.signer # 0 /\ Pk(t.signature.signer) = pk

C11_AuthorizingKey ==
    last.op = "verify" =>
        LET t == txs[last.a].t
        IN /\ last.ok => SignedWith(t, AuthorizingKey(t))
           /\ (t.pub_key_input.some
                 /\ t.pub_key_input.key # t.pub_key_output
                 /\ SignedWith(t, t.pub_key_output)) => ~last.ok
           /\ (~t.pub_key_input.some /\ ~SignedWith(t, t.pub_key_output))
                 => ~last.ok

C11_Witness ==
    /\ last.op = "verify" /\ ~last.ok
    /\ txs[last.a].kind = "signed"
    /\ txs[last.a].t.pub_key_input.some
    /\ txs[last.a].t.pub_key_input.key # txs[last.a].t.pub_key_output
    /\ SignedWith(txs[last.a].t, txs[last.a].t.pub_key_output)
    /\ last.err = "signature is not valid"
    /\ \E i \in 1..Len(txs) :
          txs[i].kind = "transfer" /\ verify(txs[i].t).ok

(* C12: from_json returns a transaction without input key exactly when    *)
(* the member publicKeyInput is null or missing; any other value is       *)
(* decoded from base64 into a present input key, or decoding fails.       *)
C12_NoInputOnlyForNull ==
    (dec.done /\ dec.res.ok) =>
        LET v == text.doc.publicKeyInput
            t == dec.res.t
        IN IF v.ty \in {"null", "missing"}
           THEN t.pub_key_input = None
           ELSE /\ v.ty = "string"
                /\ t.pub_key_input.some
                /\ encode(t.pub_key_input.key) = v.s

----------------------------------------------------------------------------
(* The client's history *)

StrictlyIncreasing(s) == \A i, j \in 1..Len(s) : i < j => s[i] < s[j]

(* the last n elements of s, as a set *)
MostRecent(s, n) ==
    {s[i] : i \in (IF Len(s) > n THEN Len(s) - n + 1 ELSE 1)..Len(s)}

ListIndices == {app.list_model[r].idx : r \in 1..Len(app.list_model)}

Smallest(S) == CHOOSE m \in S : \A k \in S : m <= k

(* C13: after any number of additions the history map holds at most        *)
(* MAX_TX_HISTORY transactions, the indices handed out are strictly         *)
(* increasing (none is used twice), the keys held are exactly the most      *)
(* recently assigned ones, an addition removes nothing but the smallest     *)
(* key, the indices in the list model are the keys of the map, one row per  *)
(* key, and the lookup of a selected row's index finds its transaction.     *)
C13_BoundedHistory ==
    /\ Cardinality(DOMAIN app.txs) <= MAX_TX_HISTORY
    /\ StrictlyIncreasing(app.assigned)
    /\ DOMAIN app.txs = MostRecent(app.assigned, MAX_TX_HISTORY)
    /\ (ev.h \in {"send", "sendn"} /\ Len(app.assigned) = Len(ev.pre.assigned) + 1)
          => \/ DOMAIN ev.pre.txs \subseteq DOMAIN app.txs
             \/ DOMAIN ev.pre.txs \ DOMAIN app.txs = {Smallest(DOMAIN ev.pre.txs)}
    /\ ListIndices = DOMAIN app.txs
    /\ Len(app.list_model) = Cardinality(DOMAIN app.txs)
    /\ ev.h = "select" => ev.hit

(* an addition to a full history has just removed index 0 *)
C13_Witness ==
    /\ ev.h = "send"
    /\ Cardinality(DOMAIN ev.pre.txs) = MAX_TX_HISTORY
    /\ 0 \in DOMAIN ev.pre.txs
    /\ DOMAIN app.txs = 1..MAX_TX_HISTORY
    /\ Len(app.assigned) = MAX_TX_HISTORY + 1

(* C14: after "Send", if the text of the input area fails from_json the     *)
(* history is as before, no POST was issued and the status is 'Invalid      *)
(* input'; if it decodes, one transaction was added, one POST with the      *)
(* text as body was issued, the entry is in the history of the running      *)
(* client, and unless the POST succeeded the status is 'Failed to send      *)
(* transaction'.                                                            *)
C14_SendTransaction ==
    ev.h = "send" =>
        LET r == from_json(ev.pre.buffer)
        IN IF ~r.ok
           THEN /\ app.txs = ev.pre.txs
                /\ app.list_model = ev.pre.list_model
                /\ app.posts = ev.pre.posts
                /\ app.status = "Invalid input"
           ELSE /\ Len(app.assigned) = Len(ev.pre.assigned) + 1
                /\ app.posts = ev.pre.posts + 1
                /\ app.last_body = ev.pre.buffer
                /\ ev.pre.id \in DOMAIN app.txs
                /\ app.txs[ev.pre.id] = r.t
                /\ ~app.crashed
                /\ ev.outcome = "ok" => app.status = "Successfully sent transaction"
                /\ ev.outcome # "ok" => app.status = "Failed to send transaction"

====
